---- MODULE Spec2Model ----
(***************************************************************************)
(* Model of the MyDeviceForDIY integration (src/__init__.py): the UDP      *)
(* listener, the parsing of the delimited-text datagram, the in-memory     *)
(* device store, the discovery trigger and the update notification.        *)
(*                                                                         *)
(* Conventions                                                             *)
(*  - A text (Python str / bytes) is a sequence of one-character strings.  *)
(*  - An optional value is None (the empty tuple) or Some(x).              *)
(*  - A float produced by int(x) / 10.0 is represented by its decimal      *)
(*    expansion [neg, whole, tenths], which is exact for the one-decimal   *)
(*    values the division yields.                                          *)
(*  - Listener operations are called one at a time, and a datagram is      *)
(*    handled by one synchronous call of datagram_received.                *)
(*  - src/__init__.py imports ENTRY_TYPE and SIGNAL_DEVICE_UPDATED from    *)
(*    const.py, which names them CONF_ENTRY_TYPE and SIGNAL_DATA_RECEIVED; *)
(*    the model reads them as the entry-type key and the one dispatcher    *)
(*    signal.                                                              *)
(***************************************************************************)
EXTENDS Integers, Sequences, FiniteSets, TLC

VARIABLES
    devices,     \* hass.data[DOMAIN]["devices"]: device_id -> DeviceState
    server,      \* hass.data[DOMAIN]["server"]: None or Some(index of the (transport, protocol) pair)
    port,        \* hass.data[DOMAIN]["port"]: None or Some(port)
    transports,  \* every endpoint created so far: [port, closed, protocol_transport]
    entries,     \* hass.config_entries.async_entries(DOMAIN)
    clock,       \* time.time(), in whole seconds
    rx,          \* the datagram handled last: None or Some([data, addr, now, configured]),
                 \* configured being the device ids registered when it arrived
    effects,     \* what handling rx did, in program order
    nrecv,       \* number of datagrams handled so far
    before,      \* the device store as it was when rx arrived
    flowInits,   \* device_id -> number of discovery flows started (flow.async_init calls)
    op,          \* the listener operation that returned last, with the state it was called in
    loaded,      \* the config entries that are set up (async_setup_entry returned True)
    pending,     \* number of datagrams waiting in the socket buffer of the endpoint bound last
    flows,       \* the config flows in progress, oldest first
    flowResult   \* None or Some(the flow that ended last and how it ended)

vars == <<devices, server, port, transports, entries, clock, rx, effects, nrecv, before,
          flowInits, op, loaded, pending, flows, flowResult>>

\* Python's Optional: None, or Some(x) holding x
None == <<>>

Some(x) == <<x>>

----------------------------------------------------------------------------
(* Bounds of the model *)

MaxClock == 1
MaxDatagrams == 2
MaxTransports == 2

----------------------------------------------------------------------------
(* Text primitives of Python used by datagram_received *)

Digits == <<"0", "1", "2", "3", "4", "5", "6", "7", "8", "9">>

IsDigit(c) == \E i \in 1..10 : Digits[i] = c

DigitVal(c) == (CHOOSE i \in 1..10 : Digits[i] = c) - 1

\* str.isspace() for the characters of the model's alphabet
IsSpace(c) == c \in {" ", "\n", "\t", "\r"}

\* bytes.decode("utf-8", errors="replace"): an undecodable byte becomes U+FFFD
Decode(data) == [i \in 1..Len(data) |-> IF data[i] = "\\xff" THEN "\\ufffd" ELSE data[i]]

RECURSIVE LStrip(_)
LStrip(s) == IF s # <<>> /\ IsSpace(Head(s)) THEN LStrip(Tail(s)) ELSE s

RECURSIVE RStrip(_)
RStrip(s) == IF s # <<>> /\ IsSpace(s[Len(s)]) THEN RStrip(SubSeq(s, 1, Len(s) - 1)) ELSE s

\* str.strip()
Strip(s) == RStrip(LStrip(s))

\* str.split(";"): always at least one part
RECURSIVE SplitFrom(_, _, _)
SplitFrom(s, cur, acc) ==
    IF s = <<>> THEN Append(acc, cur)
    ELSE IF Head(s) = ";" THEN SplitFrom(Tail(s), <<>>, Append(acc, cur))
    ELSE SplitFrom(Tail(s), Append(cur, Head(s)), acc)

Split(s) == SplitFrom(s, <<>>, <<>>)

\* str.lower() for the letters of the record types
Lower(s) == [i \in 1..Len(s) |-> IF s[i] = "H" THEN "h" ELSE IF s[i] = "T" THEN "t" ELSE s[i]]

\* the digit groups int() accepts: digits, single underscores only between digits
RECURSIVE IsDigitRun(_, _)
IsDigitRun(s, afterDigit) ==
    IF s = <<>> THEN afterDigit
    ELSE IF IsDigit(Head(s)) THEN IsDigitRun(Tail(s), TRUE)
    ELSE IF Head(s) = "_" THEN afterDigit /\ Tail(s) # <<>> /\ IsDigit(Head(Tail(s)))
                               /\ IsDigitRun(Tail(s), FALSE)
    ELSE FALSE

RECURSIVE DigitRunVal(_, _)
DigitRunVal(s, acc) ==
    IF s = <<>> THEN acc
    ELSE IF Head(s) = "_" THEN DigitRunVal(Tail(s), acc)
    ELSE DigitRunVal(Tail(s), 10 * acc + DigitVal(Head(s)))

\* int(s) for a str: [ok |-> FALSE] stands for ValueError
ParseInt(s) ==
    LET t == Strip(s)
        signed == t # <<>> /\ Head(t) \in {"-", "+"}
        body == IF signed THEN Tail(t) ELSE t
    IN  IF IsDigitRun(body, FALSE)
        THEN [ok |-> TRUE,
              val |-> IF signed /\ Head(t) = "-" THEN 0 - DigitRunVal(body, 0)
                      ELSE DigitRunVal(body, 0)]
        ELSE [ok |-> FALSE, val |-> 0]

\* f"{n}" for an int
RECURSIVE NatToText(_)
NatToText(n) == IF n < 10 THEN <<Digits[n + 1]>> ELSE Append(NatToText(n \div 10), Digits[(n % 10) + 1])

IntToText(n) == IF n < 0 THEN <<"-">> \o NatToText(0 - n) ELSE NatToText(n)

\* int / 10.0
DivTen(n) ==
    IF n < 0 THEN [neg |-> TRUE, whole |-> (0 - n) \div 10, tenths |-> (0 - n) % 10]
    ELSE [neg |-> FALSE, whole |-> n \div 10, tenths |-> n % 10]

----------------------------------------------------------------------------
(* DeviceState and the steps of _UdpServer.datagram_received *)

\* DeviceState(device_id=device_id): every other field defaults to None
DeviceState(device_id) ==
    [device_id |-> device_id, last_update_utc |-> None, temperature_c |-> None,
     humidity_percent |-> None, last_seen_utc |-> None]

Effect(kind, arg, addr) == [kind |-> kind, arg |-> arg, addr |-> addr]

\* AckEffects with the success marker left out of the reply
AckEffectsNoMarker(protocol_transport, now, addr) ==
    IF protocol_transport # None
    THEN <<Effect("sendto", IntToText(now), addr)>>
    ELSE <<>>

\* the acknowledgement: sent when the protocol has its transport
AckEffects(protocol_transport, now, addr) ==
    IF protocol_transport # None
    THEN <<Effect("sendto", IntToText(now) \o <<";", "1">>, addr)>>
    ELSE <<>>

\* AcceptedType with no record type turned away
AcceptedTypeAny(raw_type) == TRUE

\* the record types handled
AcceptedType(raw_type) == raw_type \in {<<"1", "1">>, <<"h", "t">>, <<"H", "T">>}

\* MeasTs with a negative timestamp taken as an absolute time
MeasTsAbsolute(raw_ts, now) ==
    IF raw_ts # <<>> /\ ParseInt(raw_ts).ok THEN ParseInt(raw_ts).val ELSE now

\* the measurement timestamp
MeasTs(raw_ts, now) ==
    IF raw_ts # <<>> /\ ParseInt(raw_ts).ok
    THEN (IF ParseInt(raw_ts).val < 0 THEN now + ParseInt(raw_ts).val ELSE ParseInt(raw_ts).val)
    ELSE now

\* temp_c (k = 4) and hum_p (k = 5): None unless the field is there and an integer
Reading(parts, k) ==
    IF Len(parts) >= k /\ Strip(parts[k]) # <<>> /\ ParseInt(Strip(parts[k])).ok
    THEN Some(DivTen(ParseInt(Strip(parts[k])).val))
    ELSE None

\* ApplyReading with the newest measurement time kept
ApplyReadingKeepsNewest(st, now, meas_ts, temp_c, hum_p) ==
    [st EXCEPT !.last_seen_utc = Some(now),
               !.last_update_utc = IF @ # None /\ @[1] > meas_ts THEN @ ELSE Some(meas_ts),
               !.temperature_c = IF temp_c # None THEN temp_c ELSE @,
               !.humidity_percent = IF hum_p # None THEN hum_p ELSE @]

\* ApplyReading with the readings assigned even when the message has none
ApplyReadingAssignsNone(st, now, meas_ts, temp_c, hum_p) ==
    [st EXCEPT !.last_seen_utc = Some(now),
               !.last_update_utc = Some(meas_ts),
               !.temperature_c = temp_c,
               !.humidity_percent = hum_p]

\* the writes to the DeviceState
ApplyReading(st, now, meas_ts, temp_c, hum_p) ==
    [st EXCEPT !.last_seen_utc = Some(now),
               !.last_update_utc = Some(meas_ts),
               !.temperature_c = IF temp_c # None THEN temp_c ELSE @,
               !.humidity_percent = IF hum_p # None THEN hum_p ELSE @]

\* _maybe_trigger_discovery: TRUE when a discovery flow is started
IsConfigured(device_id) ==
    \E e \in entries : e.entry_type = "device" /\ e.device_id = device_id

TriggersDiscovery(device_id) == ~IsConfigured(device_id)

\* ShouldDiscover armed again once no discovery flow of the device is in progress
ShouldDiscoverWhenIdle(isNew, device_id) ==
    /\ TriggersDiscovery(device_id)
    /\ \/ isNew
       \/ \A k \in 1..Len(flows) : flows[k].data.device_id # Some(device_id)

\* ShouldDiscover without the look-up of the store
ShouldDiscoverEveryMessage(isNew, device_id) == TriggersDiscovery(device_id)

\* _maybe_trigger_discovery is called only for a device_id the store did not hold
ShouldDiscover(isNew, device_id) == isNew /\ TriggersDiscovery(device_id)

\* Dispatch for registered devices only
DispatchIfConfigured(device_id) ==
    IF IsConfigured(device_id) THEN <<Effect("dispatcher_send", device_id, "")>> ELSE <<>>

\* async_dispatcher_send(hass, SIGNAL_DEVICE_UPDATED, device_id)
Dispatch(device_id) == <<Effect("dispatcher_send", device_id, "")>>

\* the device ids that have a device config entry
Configured == {e.device_id[1] : e \in {x \in entries : x.entry_type = "device"}}

\* Dropped with a message turned away for a reading that is missing or no integer
DroppedOnBadReading(parts) ==
    \/ Len(parts) < 3
    \/ Strip(parts[3]) = <<>>
    \/ ~AcceptedType(Strip(parts[2]))
    \/ Reading(parts, 4) = None
    \/ Reading(parts, 5) = None

\* Dropped without the test of the device id
DroppedUnlessShort(parts) ==
    \/ Len(parts) < 3
    \/ ~AcceptedType(Strip(parts[2]))

\* the datagram is dropped after the acknowledgement
Dropped(parts) ==
    \/ Len(parts) < 3
    \/ Strip(parts[3]) = <<>>
    \/ ~AcceptedType(Strip(parts[2]))

\* store[device_id] = st
Put(store, device_id, st) ==
    [x \in DOMAIN store \cup {device_id} |-> IF x = device_id THEN st ELSE store[x]]

\* one more flow.async_init for device_id
CountFlow(counts, device_id) ==
    [x \in DOMAIN counts \cup {device_id} |->
        IF x = device_id
        THEN (IF x \in DOMAIN counts THEN counts[x] + 1 ELSE 1)
        ELSE counts[x]]

\* a config flow: its step method, whether its form is shown, the data it was started
\* with and its context
Flow(handler, stage, data, context) ==
    [handler |-> handler, stage |-> stage, data |-> data, context |-> context]

\* a dict with the keys device_id, device_type, name and port, None for a missing key
Dict(device_id, device_type, name, p) ==
    [device_id |-> device_id, device_type |-> device_type, name |-> name, port |-> p]

\* hass.async_create_task(hass.config_entries.flow.async_init(DOMAIN,
\*     context={"source": SOURCE_INTEGRATION_DISCOVERY}, data={CONF_DEVICE_ID: device_id}))
DiscoveryTask(device_id) ==
    Flow("integration_discovery", "init", Dict(Some(device_id), None, None, None),
         Dict(None, None, None, None))

\* _UdpServer.datagram_received(data, addr) on the protocol of endpoint i, at time now;
\* the caller says what becomes of pending
datagram_received(i, data, addr, now) ==
    LET text == Strip(Decode(data))
        ack == AckEffects(transports[i].protocol_transport, now, addr)
        parts == Split(text)
    IN  /\ nrecv < MaxDatagrams
        /\ nrecv' = nrecv + 1
        /\ clock' = now
        /\ rx' = Some([data |-> data, addr |-> addr, now |-> now, configured |-> Configured])
        /\ before' = devices
        /\ IF Dropped(parts)
           THEN /\ effects' = ack
                /\ UNCHANGED <<devices, flowInits, flows>>
           ELSE LET raw_ts == Strip(parts[1])
                    device_id == Strip(parts[3])
                    meas_ts == MeasTs(raw_ts, now)
                    temp_c == Reading(parts, 4)
                    hum_p == Reading(parts, 5)
                    isNew == device_id \notin DOMAIN devices
                    st == IF isNew THEN DeviceState(device_id) ELSE devices[device_id]
                    discover == ShouldDiscover(isNew, device_id)
                IN  /\ devices' = Put(devices, device_id,
                                      ApplyReading(st, now, meas_ts, temp_c, hum_p))
                    /\ flowInits' = IF discover THEN CountFlow(flowInits, device_id)
                                    ELSE flowInits
                    /\ flows' = IF discover THEN Append(flows, DiscoveryTask(device_id))
                                ELSE flows
                    /\ effects' = ack
                                  \o (IF isNew THEN <<Effect("insert", device_id, "")>> ELSE <<>>)
                                  \o (IF discover THEN <<Effect("flow_init", device_id, "")>>
                                      ELSE <<>>)
                                  \o <<Effect("update", device_id, "")>>
                                  \o Dispatch(device_id)
        /\ UNCHANGED <<server, port, transports, entries, op, loaded, flowResult>>

----------------------------------------------------------------------------
(* The listener: _start_listener and _stop_listener *)

Transport(p, i) == [port |-> p, closed |-> FALSE, protocol_transport |-> Some(i)]

OpenTransports(ts) == {i \in 1..Len(ts) : ~ts[i].closed}

Step(kind, i) == [kind |-> kind, transport |-> i]

\* _stop_listener with the port left as it was
StoppedKeepsPort(srv, prt, ts) ==
    IF srv = None
    THEN [server |-> srv, port |-> prt, transports |-> ts, steps |-> <<>>]
    ELSE [server |-> None, port |-> prt,
          transports |-> [ts EXCEPT ![srv[1]].closed = TRUE],
          steps |-> <<Step("close", srv[1])>>]

\* _stop_listener with server and port left stored
StoppedKeepsServer(srv, prt, ts) ==
    IF srv = None
    THEN [server |-> srv, port |-> prt, transports |-> ts, steps |-> <<>>]
    ELSE [server |-> srv, port |-> prt,
          transports |-> [ts EXCEPT ![srv[1]].closed = TRUE],
          steps |-> <<Step("close", srv[1])>>]

\* _stop_listener without transport.close()
StoppedLeavesOpen(srv, prt, ts) ==
    [server |-> None, port |-> None, transports |-> ts, steps |-> <<>>]

\* the state _stop_listener leaves, and what it did: transport.close() of the stored
\* server, then server = port = None; nothing when no server is stored
Stopped(srv, prt, ts) ==
    IF srv = None
    THEN [server |-> srv, port |-> prt, transports |-> ts, steps |-> <<>>]
    ELSE [server |-> None, port |-> None,
          transports |-> [ts EXCEPT ![srv[1]].closed = TRUE],
          steps |-> <<Step("close", srv[1])>>]

\* _start_listener returns at once: a server is stored and its port is the one asked for
AlreadyListening(srv, prt, p) == srv # None /\ prt = Some(p)

\* _start_listener without the assignment of the port
StartedForgetsPort(srv, prt, ts, p, bound) ==
    IF AlreadyListening(srv, prt, p)
    THEN [server |-> srv, port |-> prt, transports |-> ts, steps |-> <<>>]
    ELSE LET s == Stopped(srv, prt, ts)
             i == Len(s.transports) + 1
         IN  IF bound
             THEN [server |-> Some(i), port |-> s.port,
                   transports |-> Append(s.transports, Transport(p, i)),
                   steps |-> Append(s.steps, Step("bind", i))]
             ELSE [s EXCEPT !.steps = Append(@, Step("bind_error", i))]

\* _start_listener with the new endpoint bound before the old one is stopped
StartedBindsFirst(srv, prt, ts, p, bound) ==
    IF AlreadyListening(srv, prt, p)
    THEN [server |-> srv, port |-> prt, transports |-> ts, steps |-> <<>>]
    ELSE IF bound
         THEN LET s == Stopped(srv, prt, ts)
                  i == Len(ts) + 1
              IN  [server |-> Some(i), port |-> Some(p),
                   transports |-> Append(s.transports, Transport(p, i)),
                   steps |-> <<Step("bind", i)>> \o s.steps]
         ELSE [server |-> srv, port |-> prt, transports |-> ts,
               steps |-> <<Step("bind_error", Len(ts) + 1)>>]

\* _start_listener without the call of _stop_listener
StartedWithoutStop(srv, prt, ts, p, bound) ==
    IF AlreadyListening(srv, prt, p)
    THEN [server |-> srv, port |-> prt, transports |-> ts, steps |-> <<>>]
    ELSE IF bound
         THEN [server |-> Some(Len(ts) + 1), port |-> Some(p),
               transports |-> Append(ts, Transport(p, Len(ts) + 1)),
               steps |-> <<Step("bind", Len(ts) + 1)>>]
         ELSE [server |-> srv, port |-> prt, transports |-> ts,
               steps |-> <<Step("bind_error", Len(ts) + 1)>>]

\* the state _start_listener(p) leaves, and what it did; bound is FALSE when
\* create_datagram_endpoint raises
Started(srv, prt, ts, p, bound) ==
    IF AlreadyListening(srv, prt, p)
    THEN [server |-> srv, port |-> prt, transports |-> ts, steps |-> <<>>]
    ELSE LET s == Stopped(srv, prt, ts)
             i == Len(s.transports) + 1
         IN  IF bound
             THEN [server |-> Some(i), port |-> Some(p),
                   transports |-> Append(s.transports, Transport(p, i)),
                   steps |-> Append(s.steps, Step("bind", i))]
             ELSE [s EXCEPT !.steps = Append(@, Step("bind_error", i))]

\* the record of a call: its argument, what it did, whether it raised, and the state
\* it was called in
Called(name, arg, steps, raised) ==
    Some([name |-> name, arg |-> arg, steps |-> steps, raised |-> raised,
          server |-> server, port |-> port, transports |-> transports, devices |-> devices])

\* what _start_listener(hass, p) does to the listener
listener_start(p, bound) ==
    LET r == Started(server, port, transports, p, bound)
    IN  /\ Len(r.transports) <= MaxTransports
        \* a bind succeeds only on a port that no open endpoint holds
        /\ bound => \A k \in 1..Len(r.steps) :
                        r.steps[k].kind = "bind" =>
                            \A i \in OpenTransports(transports) :
                                \/ transports[i].port # p
                                \/ \E j \in 1..(k - 1) : r.steps[j] = Step("close", i)
        /\ server' = r.server
        /\ port' = r.port
        /\ transports' = r.transports
        /\ op' = Called("start", Some(p), r.steps,
                        \E k \in 1..Len(r.steps) : r.steps[k].kind = "bind_error")
        \* the socket of a new endpoint has nothing in its buffer
        /\ pending' = IF Len(r.transports) > Len(transports) THEN 0 ELSE pending

\* await _start_listener(hass, p)
start_listener(p, bound) ==
    /\ listener_start(p, bound)
    /\ UNCHANGED <<devices, entries, clock, rx, effects, nrecv, before, flowInits, loaded,
                   flows, flowResult>>

\* what _stop_listener(hass) does to the listener; what the closed socket had in its
\* buffer stays undelivered
listener_stop ==
    LET r == Stopped(server, port, transports)
    IN  /\ server' = r.server
        /\ port' = r.port
        /\ transports' = r.transports
        /\ op' = Called("stop", None, r.steps, FALSE)
        /\ pending' = pending

\* await _stop_listener(hass)
stop_listener ==
    /\ listener_stop
    /\ UNCHANGED <<devices, entries, clock, rx, effects, nrecv, before, flowInits, loaded,
                   flows, flowResult>>

----------------------------------------------------------------------------
(* Config entries *)

DEFAULT_PORT == 55355

Ports == {DEFAULT_PORT, DEFAULT_PORT + 1}

ListenerEntry(p) == [entry_type |-> "listener", port |-> Some(p), device_id |-> None]

DeviceEntry(device_id) == [entry_type |-> "device", port |-> None, device_id |-> Some(device_id)]

\* async_unload_entry for a device entry, followed by the removal of the entry by the
\* config-entry registry: nothing of the integration's own state changes
remove_device_entry(e) ==
    /\ e \in entries
    /\ e.entry_type = "device"
    /\ entries' = entries \ {e}
    /\ loaded' = loaded \ {e}
    /\ UNCHANGED <<devices, server, port, transports, clock, rx, effects, nrecv, before,
                   flowInits, op, pending, flows, flowResult>>

\* int(entry.options.get(CONF_PORT, entry.data.get(CONF_PORT, DEFAULT_PORT))); no flow
\* of the integration writes options of a listener entry
EntryPort(e) == IF e.port # None THEN e.port[1] ELSE DEFAULT_PORT

\* hass.data.setdefault(DOMAIN, ...) with a new dict put in place of the one there
StoreReplaced(store) == <<>>

\* hass.data.setdefault(DOMAIN, {"devices": {}, "server": None, "port": None}) once
\* async_setup has run: the dict that is there stays
StoreAfterSetDefault(store) == store

\* async_setup_entry(hass, e); bound is FALSE when the bind of the listener raises
async_setup_entry(e, bound) ==
    /\ e \in entries \ loaded
    /\ devices' = StoreAfterSetDefault(devices)
    /\ IF e.entry_type = "listener"
       THEN /\ listener_start(EntryPort(e), bound)
            /\ loaded' = IF op'[1].raised THEN loaded ELSE loaded \cup {e}
       ELSE /\ bound
            /\ loaded' = loaded \cup {e}
            /\ UNCHANGED <<server, port, transports, op, pending>>
    /\ UNCHANGED <<entries, clock, rx, effects, nrecv, before, flowInits, flows, flowResult>>

\* the listener entries other than e
OtherListeners(e) == {x \in entries : x # e /\ x.entry_type = "listener"}

\* async_unload_entry(hass, e); unload_ok is what async_unload_platforms returns
async_unload_entry(e, unload_ok) ==
    /\ e \in loaded
    /\ IF ~unload_ok
       THEN UNCHANGED <<server, port, transports, op, pending, loaded>>
       ELSE /\ loaded' = loaded \ {e}
            /\ IF e.entry_type = "listener" /\ OtherListeners(e) = {}
               THEN listener_stop
               ELSE UNCHANGED <<server, port, transports, op, pending>>
    /\ UNCHANGED <<devices, entries, clock, rx, effects, nrecv, before, flowInits, flows,
                   flowResult>>

----------------------------------------------------------------------------
(* The config flows: config_flow.py *)

MaxFlows == 2

SUPPORTED_DEVICE_TYPES == {<<"h", "t">>}

NoDict == Dict(None, None, None, None)

\* any(e.data.get(CONF_ENTRY_TYPE) == ENTRY_TYPE_LISTENER for e in current entries)
HasListener == \E e \in entries : e.entry_type = "listener"

\* the flow manager drops a flow that has aborted or created its entry
Remove(fs, k) == SubSeq(fs, 1, k - 1) \o SubSeq(fs, k + 1, Len(fs))

\* the FlowResult of a step, with the input of the step and the entries it saw
FlowResult(handler, type, reason, user_input, context) ==
    Some([handler |-> handler, type |-> type, reason |-> reason, user_input |-> user_input,
          context |-> context, entries |-> entries])

\* the single-instance test made only when the form is first shown
SingleInstanceOnInit(user_input) == user_input = None /\ HasListener

\* the single-instance test of async_step_user, made on every call
SingleInstance(user_input) == HasListener

\* async_step_user(user_input) of flow k; k = 0 is a flow that flow.async_init starts,
\* user_input None shows the form, Some(p) submits it with port p
async_step_user(k, user_input) ==
    /\ IF k = 0
       THEN user_input = None /\ Len(flows) < MaxFlows
       ELSE /\ k \in 1..Len(flows)
            /\ flows[k].handler = "user"
            /\ flows[k].stage = "form"
            /\ user_input # None
    /\ IF SingleInstance(user_input)
       THEN /\ flowResult' = FlowResult("user", "abort", "single_instance_allowed",
                                        user_input, NoDict)
            /\ flows' = Remove(flows, k)
            /\ UNCHANGED entries
       ELSE IF user_input # None
            THEN /\ flowResult' = FlowResult("user", "create_entry", "", user_input, NoDict)
                 /\ flows' = Remove(flows, k)
                 /\ entries' = entries \cup {ListenerEntry(user_input[1])}
            ELSE /\ flowResult' = FlowResult("user", "form", "", user_input, NoDict)
                 /\ flows' = Append(flows, Flow("user", "form", NoDict, NoDict))
                 /\ UNCHANGED entries
    /\ UNCHANGED <<devices, server, port, transports, clock, rx, effects, nrecv, before,
                   flowInits, op, loaded, pending>>

\* self.context after step 1 of async_step_integration_discovery: the discovery fields
\* are stored only when the input has both of them
DiscoveryContext(context, user_input) ==
    IF user_input.device_id # None /\ user_input.device_type # None
    THEN [context EXCEPT !.device_id = Some(Strip(user_input.device_id[1])),
                         !.device_type = Some(Lower(Strip(user_input.device_type[1])))]
    ELSE context

\* str(self.context.get(key, "")).strip()
ContextText(v) == IF v = None THEN <<>> ELSE Strip(v[1])

\* async_step_integration_discovery(user_input) of flow k: the first call has the data
\* flow.async_init was given, a later one the name entered in the form
async_step_integration_discovery(k, user_input) ==
    /\ k \in 1..Len(flows)
    /\ flows[k].handler = "integration_discovery"
    /\ IF flows[k].stage = "init"
       THEN user_input = flows[k].data
       ELSE user_input.name # None /\ user_input.device_id = None
    /\ LET context == DiscoveryContext(flows[k].context, user_input)
           device_id == ContextText(context.device_id)
           device_type == Lower(ContextText(context.device_type))
           Abort(reason) ==
               /\ flowResult' = FlowResult("integration_discovery", "abort", reason,
                                           user_input, context)
               /\ flows' = Remove(flows, k)
               /\ UNCHANGED entries
       IN  IF device_id = <<>> \/ device_type \notin SUPPORTED_DEVICE_TYPES
           THEN Abort("not_supported")
           ELSE IF IsConfigured(device_id)
           THEN Abort("already_configured")
           ELSE IF ~HasListener
           THEN Abort("listener_missing")
           ELSE IF user_input.name # None
           THEN /\ flowResult' = FlowResult("integration_discovery", "create_entry", "",
                                            user_input, context)
                /\ flows' = Remove(flows, k)
                /\ entries' = entries \cup {DeviceEntry(device_id)}
           ELSE /\ flowResult' = FlowResult("integration_discovery", "form", "",
                                            user_input, context)
                /\ flows' = [flows EXCEPT ![k].stage = "form", ![k].context = context]
                /\ UNCHANGED entries
    /\ UNCHANGED <<devices, server, port, transports, clock, rx, effects, nrecv, before,
                   flowInits, op, loaded, pending>>

----------------------------------------------------------------------------
(* Datagrams sent to the listener *)

\* the payload made of the given fields
RECURSIVE Join(_)
Join(fields) ==
    IF Len(fields) = 1 THEN fields[1]
    ELSE fields[1] \o <<";">> \o Join(Tail(fields))

IdA == <<"a">>
IdB == <<"b">>
Tht == <<"h", "t">>
T21 == <<"2", "1">>
T23 == <<"2", "3">>
H45 == <<"4", "5">>
H47 == <<"4", "7">>
One == <<"1">>
Age == <<"-", "1">>

Senders == {"10.0.0.1:4000", "10.0.0.2:4000"}

Sender1 == "10.0.0.1:4000"

\* payloads that vary the timestamp field
TsPayloads ==
    {Join(<<ts, Tht, IdA, T21, H45>>) : ts \in {<<>>, <<"-">>, Age, One, <<"+", "2">>}}

\* payloads that vary the readings
ReadingPayloads ==
    {Join(<<One, Tht, IdA>>),
     Join(<<One, Tht, IdA, T23>>),
     Join(<<One, Tht, IdA, <<>>, H47>>),
     Join(<<One, Tht, IdA, <<"x">>, H47>>),
     Join(<<Age, <<"H", "T">>, IdB, T21, H45>>),
     Join(<<<<>>, <<"1", "1">>, IdB, T23>>),
     Join(<<One, Tht, IdB, <<" ", "-", "7", " ">>, <<"4", "_", "7">>, <<"9">>>>) \o <<"\n">>}

\* payloads that vary the record type
TypePayloads ==
    {Join(<<One, ty, IdB, T21, H45>>) :
        ty \in {<<"H", "t">>, <<"h", "T">>, <<"9", "9">>, <<" ", "h", "t">>,
                <<"h", "t", "\\xff">>}}

\* payloads with fewer than three fields or no device id
MalformedPayloads ==
    {<<>>,
     Join(<<One, Tht>>),
     Join(<<One, Tht, <<" ">>, T21, H45>>)}

Payloads == TsPayloads \cup ReadingPayloads \cup TypePayloads \cup MalformedPayloads

Datagram(data, addr) == [data |-> data, addr |-> addr]

IngestInputs ==
    {Datagram(d, Sender1) : d \in Payloads}
    \cup {Datagram(Join(<<One, Tht, IdA, T21, H45>>), a) : a \in Senders}

CoreInputs ==
    {Datagram(Join(<<One, Tht, IdA, T21, H45>>), Sender1),
     Datagram(Join(<<Age, Tht, IdB, T23>>), Sender1),
     Datagram(Join(<<One, <<"9", "9">>, IdA, T21, H45>>), Sender1)}

----------------------------------------------------------------------------
(* Specifications *)

\* the entries restored from storage when the integration is loaded
InitEntries ==
    {{ListenerEntry(DEFAULT_PORT)} \cup {DeviceEntry(d) : d \in ds} : ds \in SUBSET {IdA, IdB}}

\* async_setup: hass.data[DOMAIN] = {"devices": {}, "server": None, "port": None}
Init ==
    /\ devices = <<>>
    /\ server = None
    /\ port = None
    /\ transports = <<>>
    /\ entries \in InitEntries
    /\ clock = 0
    /\ rx = None
    /\ effects = <<>>
    /\ nrecv = 0
    /\ before = <<>>
    /\ flowInits = <<>>
    /\ op = None
    /\ loaded = {}
    /\ pending = 0
    /\ flows = <<>>
    /\ flowResult = None

\* the same, once async_setup_entry of the listener entry has started the listener
InitListening ==
    /\ devices = <<>>
    /\ server = Started(None, None, <<>>, DEFAULT_PORT, TRUE).server
    /\ port = Started(None, None, <<>>, DEFAULT_PORT, TRUE).port
    /\ transports = Started(None, None, <<>>, DEFAULT_PORT, TRUE).transports
    /\ entries \in InitEntries
    /\ clock = 0
    /\ rx = None
    /\ effects = <<>>
    /\ nrecv = 0
    /\ before = <<>>
    /\ flowInits = <<>>
    /\ op = None
    /\ loaded = entries
    /\ pending = 0
    /\ flows = <<>>
    /\ flowResult = None

\* a datagram of the set arrives on an open endpoint
Receive(inputs) ==
    \E i \in OpenTransports(transports), dg \in inputs, now \in clock..MaxClock :
        /\ datagram_received(i, dg.data, dg.addr, now)
        /\ UNCHANGED pending

\* a datagram reaches the socket of an open endpoint and waits there
Arrive ==
    /\ OpenTransports(transports) # {}
    /\ nrecv + pending < MaxDatagrams
    /\ pending' = pending + 1
    /\ UNCHANGED <<devices, server, port, transports, entries, clock, rx, effects, nrecv,
                   before, flowInits, op, loaded, flows, flowResult>>

\* the event loop reads a waiting datagram of the set and calls datagram_received
Deliver(inputs) ==
    \E i \in OpenTransports(transports), dg \in inputs, now \in clock..MaxClock :
        /\ pending > 0
        /\ datagram_received(i, dg.data, dg.addr, now)
        /\ pending' = pending - 1

StartListener == \E p \in Ports, bound \in BOOLEAN : start_listener(p, bound)

StopListener == stop_listener

RemoveDeviceEntry == \E e \in entries : remove_device_entry(e)

ReceiveCore == Receive(CoreInputs)

ReceiveAny == Receive(IngestInputs)

Next ==
    \/ ReceiveCore
    \/ StartListener
    \/ StopListener
    \/ RemoveDeviceEntry

Spec == Init /\ [][Next]_vars

SetupEntry == \E e \in entries, bound \in BOOLEAN : async_setup_entry(e, bound)

UnloadEntry == \E e \in entries, unload_ok \in BOOLEAN : async_unload_entry(e, unload_ok)

DeliverCore == Deliver(CoreInputs)

\* what the user can enter in the name form of a discovered device
FormNames == {<<>>, <<"K">>}

\* what a step of a discovery flow can be called with
DiscoveryInputs == {f.data : f \in {flows[k] : k \in 1..Len(flows)}}
                       \cup {Dict(None, None, Some(n), None) : n \in FormNames}

UserFlowStep == \E k \in 0..Len(flows), user_input \in {None} \cup {Some(p) : p \in Ports} :
                    async_step_user(k, user_input)

DiscoveryFlowStep == \E k \in 1..Len(flows), user_input \in DiscoveryInputs :
                         async_step_integration_discovery(k, user_input)

\* the entries of a new installation and those restored from storage
HostEntries == {{}} \cup InitEntries

InitHost ==
    /\ devices = <<>>
    /\ server = None
    /\ port = None
    /\ transports = <<>>
    /\ entries \in HostEntries
    /\ clock = 0
    /\ rx = None
    /\ effects = <<>>
    /\ nrecv = 0
    /\ before = <<>>
    /\ flowInits = <<>>
    /\ op = None
    /\ loaded = {}
    /\ pending = 0
    /\ flows = <<>>
    /\ flowResult = None

NextHost ==
    \/ SetupEntry
    \/ UnloadEntry
    \/ Arrive
    \/ DeliverCore
    \/ RemoveDeviceEntry
    \/ UserFlowStep
    \/ DiscoveryFlowStep

SpecHost == InitHost /\ [][NextHost]_vars

NextIngest == ReceiveAny

SpecIngest == InitListening /\ [][NextIngest]_vars

----------------------------------------------------------------------------
(* What the claims speak of *)

\* the fields of the datagram handled last, as the handler splits them
RxParts == Split(Strip(Decode(rx[1].data)))

RxField(k) == IF Len(RxParts) >= k THEN Strip(RxParts[k]) ELSE <<>>

\* the positions in effects of the effects of one kind
Positions(kind) == {i \in 1..Len(effects) : effects[i].kind = kind}

Did(kind) == Positions(kind) # {}

\* the datagram handled last was accepted: it wrote to the DeviceState of RxField(3)
RxAccepted == rx # None /\ Did("update")

----------------------------------------------------------------------------
(* C1 *)

\* C1: an accepted datagram without a (parsable) temperature field leaves the stored
\* temperature_c as it was, one without a (parsable) humidity field leaves the stored
\* humidity_percent as it was; a stored value is replaced only by the value the
\* message carries and is never reset to None.
PartialUpdateKeepsFields ==
    (RxAccepted /\ RxField(3) \in DOMAIN before) =>
        LET d == RxField(3)
            t == ParseInt(RxField(4))
            h == ParseInt(RxField(5))
        IN  /\ ~t.ok => devices[d].temperature_c = before[d].temperature_c
            /\ ~h.ok => devices[d].humidity_percent = before[d].humidity_percent
            /\ t.ok => devices[d].temperature_c = Some(DivTen(t.val))
            /\ h.ok => devices[d].humidity_percent = Some(DivTen(h.val))
            /\ before[d].temperature_c # None => devices[d].temperature_c # None
            /\ before[d].humidity_percent # None => devices[d].humidity_percent # None

\* a message with a new temperature and no humidity, for a device that had both
PartialUpdateSeen ==
    /\ RxAccepted
    /\ RxField(3) \in DOMAIN before
    /\ ~ParseInt(RxField(5)).ok
    /\ before[RxField(3)].humidity_percent # None
    /\ devices[RxField(3)].humidity_percent = before[RxField(3)].humidity_percent
    /\ devices[RxField(3)].temperature_c # before[RxField(3)].temperature_c

----------------------------------------------------------------------------
(* C2 *)

\* C2: over any sequence of datagrams at most one discovery flow is started per
\* device_id: only the message that inserts an unregistered device_id into the store
\* starts one, and a later message for a device_id the store holds starts none.
DiscoveryAtMostOnce ==
    /\ \A d \in DOMAIN flowInits : flowInits[d] <= 1
    /\ DOMAIN flowInits \subseteq DOMAIN devices
    /\ Cardinality(Positions("flow_init")) <= 1
    /\ RxAccepted =>
          /\ (RxField(3) \in DOMAIN before => ~Did("flow_init"))
          /\ (RxField(3) \notin DOMAIN before /\ RxField(3) \notin rx[1].configured) =>
                 /\ Did("flow_init")
                 /\ RxField(3) \in DOMAIN flowInits
                 /\ flowInits[RxField(3)] = 1

\* the second message of an unregistered device_id: still one discovery flow
SecondMessageSeen ==
    /\ RxAccepted
    /\ nrecv = 2
    /\ RxField(3) \in DOMAIN before
    /\ RxField(3) \notin rx[1].configured
    /\ RxField(3) \in DOMAIN flowInits
    /\ flowInits[RxField(3)] = 1

----------------------------------------------------------------------------
(* C3 *)

----------------------------------------------------------------------------
(* C4 *)

\* the datagram handled last had no effect but its acknowledgement
OnlyAcknowledged == Positions("sendto") = 1..Len(effects)

\* C4: every datagram received is answered with exactly one reply "<now>;1", now being
\* the current time in seconds, sent to the sender of the datagram, and the reply is
\* the first thing the handler does.
AcknowledgedFirst ==
    rx # None =>
        /\ Positions("sendto") = {1}
        /\ effects[1].addr = rx[1].addr
        /\ Len(Split(effects[1].arg)) = 2
        /\ IsDigit(effects[1].arg[1])
        /\ ParseInt(Split(effects[1].arg)[1]) = [ok |-> TRUE, val |-> clock]
        /\ Split(effects[1].arg)[2] = <<"1">>

\* a datagram with fewer than 3 fields, acknowledged after the clock has moved
ShortDatagramAcknowledged ==
    /\ rx # None
    /\ Len(RxParts) < 3
    /\ clock = 1
    /\ effects = <<Effect("sendto", <<"1", ";", "1">>, rx[1].addr)>>

----------------------------------------------------------------------------
(* C5 *)

\* C5: a datagram whose record type is no humidity/temperature code, in any case,
\* changes nothing: the store is as it was, no discovery flow is started and no
\* notification is sent.
UnsupportedTypeChangesNothing ==
    (rx # None /\ Len(RxParts) >= 3 /\ Lower(RxField(2)) \notin {<<"1", "1">>, <<"h", "t">>}) =>
        /\ devices = before
        /\ OnlyAcknowledged
        /\ DOMAIN flowInits \subseteq DOMAIN before

\* record type 99 from a device_id the store does not hold and that is not registered
UnsupportedTypeSeen ==
    /\ rx # None
    /\ RxField(2) = <<"9", "9">>
    /\ RxField(3) # <<>>
    /\ RxField(3) \notin DOMAIN before
    /\ RxField(3) \notin rx[1].configured
    /\ devices = before

----------------------------------------------------------------------------
(* C6 *)

\* the listener is Running: a server is stored and its endpoint is open
Running ==
    /\ server # None
    /\ port # None
    /\ ~transports[server[1]].closed
    /\ transports[server[1]].protocol_transport = server

\* C6: a datagram with fewer than 3 fields or an empty device id is rejected: the store
\* is as it was, no discovery flow is started, no notification is sent, and the
\* listener is still Running and takes the next datagram.
MalformedRejected ==
    (rx # None /\ (Len(RxParts) < 3 \/ RxField(3) = <<>>)) =>
        /\ devices = before
        /\ OnlyAcknowledged
        /\ DOMAIN flowInits \subseteq DOMAIN before
        /\ Running
        /\ nrecv < MaxDatagrams => ENABLED ReceiveAny

\* a datagram with a blank device id, received after an accepted one
MalformedSeen ==
    /\ rx # None
    /\ Len(RxParts) >= 3
    /\ RxField(3) = <<>>
    /\ DOMAIN before # {}
    /\ devices = before
    /\ Running

----------------------------------------------------------------------------
(* C7 *)

\* C7 as stated: a datagram with a device id whose record type is "ht" in any case is
\* accepted and makes the update that "ht" makes.
TypeMatchedIgnoringCase ==
    (rx # None /\ Len(RxParts) >= 3 /\ RxField(3) # <<>> /\ Lower(RxField(2)) = <<"h", "t">>) =>
        /\ RxAccepted
        /\ RxField(3) \in DOMAIN devices
        /\ devices[RxField(3)].last_seen_utc = Some(clock)

----------------------------------------------------------------------------
(* C8 *)

\* C8: for an accepted message received at time now with timestamp field v, the stored
\* measurement time is now + v when v is a negative integer, v when v is a non-negative
\* integer, now when v is empty or no integer; the stored receive time is now.
MeasurementTimeRule ==
    RxAccepted =>
        LET v == ParseInt(RxField(1))
            st == devices[RxField(3)]
            now == rx[1].now
        IN  /\ st.last_seen_utc = Some(now)
            /\ (v.ok /\ v.val < 0) => st.last_update_utc = Some(now + v.val)
            /\ (v.ok /\ v.val >= 0) => st.last_update_utc = Some(v.val)
            /\ ~v.ok => st.last_update_utc = Some(now)
            /\ RxField(1) \in {<<>>, <<"-">>} => st.last_update_utc = Some(now)
            /\ RxField(1) = <<"-", "1">> => st.last_update_utc = Some(now - 1)
            /\ RxField(1) = <<"+", "2">> => st.last_update_utc = Some(2)

\* a message that says it is one second old, received at time 1
RelativeAgeSeen ==
    /\ RxAccepted
    /\ RxField(1) = <<"-", "1">>
    /\ rx[1].now = 1
    /\ devices[RxField(3)].last_update_utc = Some(0)
    /\ devices[RxField(3)].last_seen_utc = Some(1)

----------------------------------------------------------------------------
(* C9 *)

\* C9: _start_listener on the port the running server is bound to creates no endpoint
\* and leaves server and port as they were; on another port it closes the old
\* transport before it binds the new endpoint, so that never two endpoints are open.
StartIdempotent ==
    /\ Cardinality(OpenTransports(transports)) <= 1
    /\ (op # None /\ op[1].name = "start" /\ op[1].server # None) =>
          LET o == op[1]
          IN  /\ o.port = o.arg =>
                    /\ o.steps = <<>>
                    /\ ~o.raised
                    /\ server = o.server
                    /\ port = o.port
                    /\ transports = o.transports
              /\ o.port # o.arg =>
                    /\ o.steps[1] = Step("close", o.server[1])
                    /\ transports[o.server[1]].closed
                    /\ \A k \in 1..Len(o.steps) : o.steps[k].kind = "bind" => k > 1
                    /\ ~o.raised =>
                          /\ o.steps = <<Step("close", o.server[1]), Step("bind", Len(transports))>>
                          /\ Len(transports) = Len(o.transports) + 1
                          /\ server = Some(Len(transports))
                          /\ port = o.arg
                          /\ transports[Len(transports)] = Transport(o.arg[1], Len(transports))

\* the listener moved from one port to another
PortChanged ==
    /\ op # None
    /\ op[1].name = "start"
    /\ op[1].server # None
    /\ op[1].port # op[1].arg
    /\ ~op[1].raised
    /\ port = op[1].arg
    /\ OpenTransports(transports) = {server[1]}
    /\ transports[op[1].server[1]].closed

----------------------------------------------------------------------------
(* C10 *)

\* C10: _stop_listener ends with server and port None and the transport closed; called
\* when no server is stored it changes nothing; it raises nothing and leaves the
\* device store as it was.
StopEndsStopped ==
    (op # None /\ op[1].name = "stop") =>
        LET o == op[1]
        IN  /\ server = None
            /\ port = None
            /\ OpenTransports(transports) = {}
            /\ ~o.raised
            /\ devices = o.devices
            /\ o.server # None =>
                  /\ o.steps = <<Step("close", o.server[1])>>
                  /\ transports = [o.transports EXCEPT ![o.server[1]].closed = TRUE]
            /\ o.server = None =>
                  /\ o.steps = <<>>
                  /\ port = o.port
                  /\ transports = o.transports

\* a running listener stopped while the store holds a device
StoppedWithDevices ==
    /\ op # None
    /\ op[1].name = "stop"
    /\ op[1].server # None
    /\ ~op[1].transports[op[1].server[1]].closed
    /\ DOMAIN devices # {}
    /\ server = None

----------------------------------------------------------------------------
(* Claims about the entries, the listener's life and the flows *)

\* the discovery flows that were started and have not run their first step
StartedDiscoveries(fs) ==
    {k \in 1..Len(fs) : fs[k].handler = "integration_discovery" /\ fs[k].stage = "init"}

\* C11: while no listener is running (from the return of _stop_listener to the next
\* start) no datagram is handled: no DeviceUpdated is sent, no discovery flow is
\* started and the store is not written, also when datagrams wait unread at the closed
\* socket.
QuietWhileStopped ==
    [][(server = None /\ server' = None) =>
           /\ nrecv' = nrecv
           /\ effects' = effects
           /\ flowInits' = flowInits
           /\ Cardinality(StartedDiscoveries(flows')) <= Cardinality(StartedDiscoveries(flows))
           /\ devices' = devices]_vars

\* _stop_listener closed a running listener that had handled a datagram, and a
\* datagram waits unread at its socket
StoppedWithUnread ==
    /\ op # None
    /\ op[1].name = "stop"
    /\ op[1].server # None
    /\ server = None
    /\ nrecv > 0
    /\ pending > 0

StoreOnlyGrows == [][DOMAIN devices \subseteq DOMAIN devices']_vars

\* the listener entry was set up again, after a stop, with a device in the store
SetUpAgainWithDevices ==
    /\ op # None
    /\ op[1].name = "start"
    /\ ~op[1].raised
    /\ op[1].server = None
    /\ \E i \in 1..Len(op[1].transports) : op[1].transports[i].closed
    /\ DOMAIN op[1].devices # {}
    /\ DOMAIN op[1].devices \subseteq DOMAIN devices
    /\ \E e \in loaded : e.entry_type = "listener"

\* C15: the store is written datagram by datagram, in the order the datagrams are
\* handled: an accepted message sets the received time and the measurement time of its
\* device_id to its own (the measurement time also when the stored one is newer) and
\* leaves every other device's state as it was; a datagram that is not accepted leaves
\* the store as it was. So each device holds the times of its last accepted message.
LastAcceptedWins ==
    rx # None =>
        IF RxAccepted
        THEN LET d == RxField(3)
             IN  /\ DOMAIN devices = DOMAIN before \cup {d}
                 /\ \A x \in DOMAIN before \ {d} : devices[x] = before[x]
                 /\ devices[d].device_id = d
                 /\ devices[d].last_seen_utc = Some(rx[1].now)
                 /\ devices[d].last_update_utc = Some(MeasTs(RxField(1), rx[1].now))
        ELSE devices = before

\* the second accepted message of a device carries an older measurement time than the
\* stored one and replaces it
OlderMeasurementStored ==
    /\ RxAccepted
    /\ RxField(3) \in DOMAIN before
    /\ before[RxField(3)].last_update_utc # None
    /\ devices[RxField(3)].last_update_utc[1] < before[RxField(3)].last_update_utc[1]
    /\ devices[RxField(3)].last_seen_utc[1] >= before[RxField(3)].last_seen_utc[1]

\* C17: a message with a device id and a supported record type whose temperature or
\* humidity field is empty or no integer is accepted like a fully valid one: after the
\* acknowledgement the DeviceState is created if the id is new, discovery is started if
\* the id is new and unregistered, the times are set, the reading that is valid is
\* stored, the other one stays as it was, and the notification is sent.
BadReadingStillAccepted ==
    (/\ rx # None
     /\ Len(RxParts) >= 3
     /\ RxField(3) # <<>>
     /\ RxField(2) \in {<<"1", "1">>, <<"h", "t">>, <<"H", "T">>}
     /\ (~ParseInt(RxField(4)).ok \/ ~ParseInt(RxField(5)).ok)) =>
        LET d == RxField(3)
            t == ParseInt(RxField(4))
            h == ParseInt(RxField(5))
            isNew == d \notin DOMAIN before
            old == IF isNew THEN DeviceState(d) ELSE before[d]
        IN  /\ effects = <<Effect("sendto", effects[1].arg, rx[1].addr)>>
                          \o (IF isNew THEN <<Effect("insert", d, "")>> ELSE <<>>)
                          \o (IF isNew /\ d \notin rx[1].configured
                              THEN <<Effect("flow_init", d, "")>> ELSE <<>>)
                          \o <<Effect("update", d, ""), Effect("dispatcher_send", d, "")>>
            /\ d \in DOMAIN devices
            /\ devices[d].last_seen_utc = Some(rx[1].now)
            /\ devices[d].last_update_utc # None
            /\ devices[d].temperature_c =
                   IF t.ok THEN Some(DivTen(t.val)) ELSE old.temperature_c
            /\ devices[d].humidity_percent =
                   IF h.ok THEN Some(DivTen(h.val)) ELSE old.humidity_percent

\* the first message of an unregistered device with temperature "x" and a valid
\* humidity: stored without a temperature, discovery started, notification sent
BadTemperatureSeen ==
    /\ rx # None
    /\ RxField(4) = <<"x">>
    /\ ParseInt(RxField(5)).ok
    /\ RxField(3) \notin DOMAIN before
    /\ RxField(3) \in DOMAIN devices
    /\ devices[RxField(3)].temperature_c = None
    /\ devices[RxField(3)].humidity_percent # None
    /\ Did("flow_init")
    /\ Did("dispatcher_send")

\* C18: a _start_listener whose bind fails raises and leaves the listener stopped:
\* server and port are None and no endpoint is open; when a listener was running (on
\* another port) its endpoint was closed before the bind, so none is running after.
FailedStartLeavesStopped ==
    (op # None /\ op[1].name = "start" /\ op[1].raised) =>
        LET o == op[1]
        IN  /\ server = None
            /\ port = None
            /\ ~Running
            /\ OpenTransports(transports) = {}
            /\ o.port # o.arg
            /\ o.server = None =>
                  /\ transports = o.transports
                  /\ o.steps = <<Step("bind_error", Len(transports) + 1)>>
            /\ o.server # None =>
                  /\ transports = [o.transports EXCEPT ![o.server[1]].closed = TRUE]
                  /\ o.steps = <<Step("close", o.server[1]),
                                 Step("bind_error", Len(transports) + 1)>>

\* the bind failed in a start on another port than the one a running listener had
FailedPortChange ==
    /\ op # None
    /\ op[1].name = "start"
    /\ op[1].raised
    /\ op[1].server # None
    /\ ~op[1].transports[op[1].server[1]].closed
    /\ op[1].port # op[1].arg
    /\ server = None

\* C20: between the listener operations the stored server is None exactly when the
\* stored port is None, and a stored server is an open endpoint bound to the stored
\* port, the only open endpoint there is.
ServerAndPortAgree ==
    /\ server = None <=> port = None
    /\ server # None =>
          /\ server[1] \in 1..Len(transports)
          /\ ~transports[server[1]].closed
          /\ transports[server[1]].port = port[1]
    /\ OpenTransports(transports) = {server[i] : i \in 1..Len(server)}

\* the listener runs on its second endpoint, the first one closed on another port
SecondEndpointRunning ==
    /\ server = Some(2)
    /\ transports[1].closed
    /\ transports[1].port # transports[2].port
    /\ port = Some(transports[2].port)

\* C13 as stated: the first step of a discovery flow that the listener started for an
\* unregistered device_id, run while a listener entry exists, does not abort but shows
\* the name form.
DiscoveryShowsForm ==
    (/\ flowResult # None
     /\ flowResult[1].handler = "integration_discovery"
     /\ flowResult[1].user_input.name = None
     /\ \E e \in flowResult[1].entries : e.entry_type = "listener"
     /\ \A e \in flowResult[1].entries :
            e.entry_type = "device" => e.device_id # flowResult[1].user_input.device_id) =>
        flowResult[1].type = "form"

\* the number of discovery flows started for device_id d
FlowCount(counts, d) == IF d \in DOMAIN counts THEN counts[d] ELSE 0

Listeners(es) == {e \in es : e.entry_type = "listener"}

\* C19: at most one listener entry exists in every state: async_step_user aborts with
\* single_instance_allowed whenever a listener entry exists, on the call that would
\* show the form and on the call that submits it, and creates an entry only when none
\* exists.
SingleListenerEntry ==
    /\ Cardinality(Listeners(entries)) <= 1
    /\ (flowResult # None /\ flowResult[1].handler = "user") =>
          LET r == flowResult[1]
          IN  /\ r.type = "abort" <=> Listeners(r.entries) # {}
              /\ r.type = "abort" => r.reason = "single_instance_allowed"
              /\ r.type = "create_entry" <=> (Listeners(r.entries) = {} /\ r.user_input # None)
              /\ r.type = "create_entry" => ListenerEntry(r.user_input[1]) \in entries

\* two user flows were shown the form; the second one to submit was aborted, the
\* entry of the first one exists
SecondSubmitAborted ==
    /\ flowResult # None
    /\ flowResult[1].handler = "user"
    /\ flowResult[1].type = "abort"
    /\ flowResult[1].user_input # None
    /\ Cardinality(Listeners(entries)) = 1

====
